---- MODULE Spec2Model ----
(***************************************************************************)
(* Grid-world MDP widget (src/unnamed/part_002): grid editor, value        *)
(* iteration solver, three policies and the timer-driven simulation loop;  *)
(* and the render loop of the robot scene (components/sim2web).            *)
(*                                                                         *)
(* Numbers.  The widget computes in JavaScript doubles.  Rewards are       *)
(* integers, the discount factor is a number of hundredths (gamma = 90     *)
(* stands for 0.9), and every value-table entry and Q-value is an integer  *)
(* count of 1/Scale units, products being rounded to the nearest unit.     *)
(***************************************************************************)
EXTENDS Integers, Sequences, FiniteSets, TLC

GRID_SIZE == 5

EMPTY == 0
FORBIDDEN == 1
TARGET == 2

\* units per 1.0 in the value table; 0.001 is Scale \div 1000 units
Scale == 10000
GammaDen == 100

Idx == 0 .. (GRID_SIZE - 1)
Cells == Idx \X Idx

\* const dirs = [[0, 1], [0, -1], [1, 0], [-1, 0]]
dirs == << <<0, 1>>, <<0, -1>>, <<1, 0>>, <<-1, 0>> >>

Abs(x) == IF x < 0 THEN -x ELSE x

\* gamma.value * x on the fixed-point grid, rounded to the nearest unit
MulGamma(g, x) == ((g * x) + (GammaDen \div 2)) \div GammaDen

\* what a read grid[r][c] yields beyond the rows' ends
UNDEFINED == -1

\* grid[r][c]
CellAt(g, r, c) == IF r \in Idx /\ c \in Idx THEN g[r][c] ELSE UNDEFINED

\* as isValidIn, with only Empty cells valid
isValidIn_EmptyOnly(g, r, c) ==
    /\ r >= 0 /\ r < GRID_SIZE /\ c >= 0 /\ c < GRID_SIZE
    /\ g[r][c] = EMPTY

\* as isValidIn, with every cell inside the grid valid
isValidIn_InGridOnly(g, r, c) ==
    r >= 0 /\ r < GRID_SIZE /\ c >= 0 /\ c < GRID_SIZE

\* isValid(r, c) over a given grid; as with &&, the conjuncts are evaluated from
\* left to right and the grid is read only once the four comparisons hold
isValidIn(g, r, c) ==
    /\ r >= 0 /\ r < GRID_SIZE /\ c >= 0 /\ c < GRID_SIZE
    /\ g[r][c] # FORBIDDEN

\* while(changed && iters < 200)
MAX_ITERS == 200

\* Math.abs(maxQ - v[r][c]) > 0.001, in units
Tolerance == Scale \div 1000

ZeroTable == [r \in Idx |-> [c \in Idx |-> 0]]

\* as QVal, with a bump into the wall costing nothing
QVal_FreeBump(g, rw, gam, v, r, c, d) ==
    LET nr == r + d[1]
        nc == c + d[2]
    IN IF isValidIn(g, nr, nc)
       THEN LET r_imm == rw.step + (IF CellAt(g, nr, nc) = TARGET THEN rw.target ELSE 0)
            IN (r_imm * Scale) + MulGamma(gam, v[nr][nc])
       ELSE MulGamma(gam, v[r][c])

\* as QVal, with the Target reward replacing the step reward on arrival
QVal_ArrivalWithoutStepCost(g, rw, gam, v, r, c, d) ==
    LET nr == r + d[1]
        nc == c + d[2]
    IN IF isValidIn(g, nr, nc)
       THEN LET r_imm == IF CellAt(g, nr, nc) = TARGET THEN rw.target ELSE rw.step
            IN (r_imm * Scale) + MulGamma(gam, v[nr][nc])
       ELSE (rw.wall * Scale) + MulGamma(gam, v[r][c])

\* val of one direction d in the solver's backup of cell (r, c) over table v
QVal(g, rw, gam, v, r, c, d) ==
    LET nr == r + d[1]
        nc == c + d[2]
    IN IF isValidIn(g, nr, nc)
       THEN LET r_imm == rw.step + (IF CellAt(g, nr, nc) = TARGET THEN rw.target ELSE 0)
            IN (r_imm * Scale) + MulGamma(gam, v[nr][nc])
       ELSE (rw.wall * Scale) + MulGamma(gam, v[r][c])

Max2(a, b) == IF b > a THEN b ELSE a

\* as MaxQ, with the last direction of dirs left out of the maximum
MaxQ_ThreeDirs(g, rw, gam, v, r, c) ==
    Max2(Max2(QVal(g, rw, gam, v, r, c, dirs[1]),
              QVal(g, rw, gam, v, r, c, dirs[2])),
         QVal(g, rw, gam, v, r, c, dirs[3]))

\* maxQ after the loop over the four directions
MaxQ(g, rw, gam, v, r, c) ==
    Max2(Max2(Max2(QVal(g, rw, gam, v, r, c, dirs[1]),
                   QVal(g, rw, gam, v, r, c, dirs[2])),
              QVal(g, rw, gam, v, r, c, dirs[3])),
         QVal(g, rw, gam, v, r, c, dirs[4]))

\* as IsTerminalCell, with the Forbidden branch of the sweep left out
IsTerminalCell_TargetOnly(g, r, c) == g[r][c] = TARGET

IsTerminalCell(g, r, c) == g[r][c] = TARGET \/ g[r][c] = FORBIDDEN

\* the entry newV[r][c] written by one sweep
SweepCell(g, rw, gam, v, r, c) ==
    IF IsTerminalCell(g, r, c) THEN 0
    ELSE LET q == MaxQ(g, rw, gam, v, r, c)
         IN IF Abs(q - v[r][c]) > Tolerance THEN q ELSE v[r][c]

\* as Sweep, with changed set by the cells of row 0 only
Sweep_ChangedInRowZero(g, rw, gam, v) ==
    LET newV == [r \in Idx |-> [c \in Idx |-> SweepCell(g, rw, gam, v, r, c)]]
    IN [v |-> newV, changed |-> newV[0] # v[0]]

\* one sweep over all cells: newV, and changed (an entry was rewritten exactly
\* when it moved by more than the tolerance, i.e. when newV differs from v)
Sweep(g, rw, gam, v) ==
    LET newV == [r \in Idx |-> [c \in Idx |-> SweepCell(g, rw, gam, v, r, c)]]
    IN [v |-> newV, changed |-> newV # v]

\* as WhileBody, with the loop left after its first sweep
WhileBody_StopsAfterOneSweep(g, rw, gam, st) ==
    IF st.changed /\ st.iters < MAX_ITERS
    THEN LET s == Sweep(g, rw, gam, st.v)
         IN [v |-> s.v, changed |-> FALSE, iters |-> st.iters + 1]
    ELSE st

\* one evaluation of the while condition and, if it holds, of the loop body
WhileBody(g, rw, gam, st) ==
    IF st.changed /\ st.iters < MAX_ITERS
    THEN LET s == Sweep(g, rw, gam, st.v)
         IN [v |-> s.v, changed |-> s.changed, iters |-> st.iters + 1]
    ELSE st

\* n consecutive evaluations of WhileBody from loop state st (split in halves
\* to keep the evaluation shallow; WhileBody is the identity once the loop exited)
RECURSIVE Loop(_, _, _, _, _)
Loop(g, rw, gam, st, n) ==
    IF n = 0 \/ ~st.changed THEN st
    ELSE IF n = 1 THEN WhileBody(g, rw, gam, st)
    ELSE Loop(g, rw, gam, Loop(g, rw, gam, st, n \div 2), n - (n \div 2))

\* solveMDP(): the loop's final v, changed and iters
solveRun(g, rw, gam) ==
    Loop(g, rw, gam, [v |-> ZeroTable, changed |-> TRUE, iters |-> 0], MAX_ITERS)

\* the table solveMDP() publishes into values.value
solveMDP(g, rw, gam) == solveRun(g, rw, gam).v

(***************************************************************************)
(* Bounds of the exploration.                                              *)
(***************************************************************************)
\* configuration edits (accepted cell clicks, reward and discount writes) per behaviour
MaxEdits == 1
\* step() calls are explored while stepCount is below this
MaxSteps == 2
\* step() calls are explored while |totalReward| is at most this
MaxAbsReward == 12

\* cells the editor clicks: the initial Start cell, its two neighbours and the
\* cell of the initial Target
ClickCells == { <<0, 0>>, <<0, 1>>, <<1, 0>>, <<GRID_SIZE - 1, GRID_SIZE - 1>> }

Tools == {"start", "target", "forbidden", "empty"}
Strategies == {"random", "greedy", "optimal"}
RewardKinds == {"step", "wall", "target"}

\* values typed into the reward and discount inputs
RewardInputs == [step |-> {-1, -2}, wall |-> {-5}, target |-> {10, 5}]
GammaInputs == {90, 99}

VARIABLES
    grid,             \* grid[r][c]: EMPTY, FORBIDDEN or TARGET
    startPos,         \* <<r, c>>
    agentPos,         \* <<r, c>>
    rewards,          \* [step, wall, target]
    gamma,            \* discount factor in hundredths
    currentTool,
    currentStrategy,
    isRunning,
    stepCount,
    totalReward,
    timer,            \* the handle kept in `timer`; 0 is null
    activeTimers,     \* handles of the intervals that still fire
    values,           \* the published value table, in units
    watchQueued,      \* the watch([gamma, rewards]) job is queued for the next flush
    lastSolve,        \* the last solveMDP() call: the grid, rewards and gamma it
                      \* read, and its loop's final v, changed and iters (run)
    lastOp,           \* the last click on the grid or on a button, timer firing or watcher
                      \* run; for the toggle and reset buttons, with what the click found
    edits             \* configuration edits made so far

\* the robot scene
VARIABLES
    isModelLoaded,
    session,          \* controller.value?.session: "none", "ready", or "failed" (init caught an error)
    onMountedAt,      \* the await the scene's onMounted stands at
    isPlaying,
    endEffectorPos,
    targetPos,
    inFlight          \* the frame callbacks suspended at await predict(obs), oldest first

widgetVars == << grid, startPos, agentPos, rewards, gamma, currentTool, currentStrategy,
                 isRunning, stepCount, totalReward, timer, activeTimers, values,
                 watchQueued, lastSolve, lastOp, edits >>

sceneVars == << isModelLoaded, session, onMountedAt, isPlaying, endEffectorPos, targetPos,
                inFlight >>

vars == << widgetVars, sceneVars >>

cfgVars == << grid, startPos, rewards, gamma, values, lastSolve, edits >>
episodeVars == << agentPos, stepCount, totalReward >>
loopVars == << isRunning, timer, activeTimers >>

(***************************************************************************)
(* The robot scene (components/sim2web/RobotScene.vue, Controller.js), a   *)
(* component of its own.  Positions are the x coordinates of the scene's   *)
(* vectors in tenths; the end effector moves on the line to the target.    *)
(***************************************************************************)
\* calls of the frame callback that may be suspended at predict() at a time
MaxInFlight == 2

\* moveSpeed = 0.8 * delta for frame times of 0.125 s and 0.25 s
MoveSpeeds == {1, 2}

\* x of the vectors randomTarget() draws: (Math.random() - 0.5) * 0.8
RandomTargets == {-3, 0, 3}

\* the state the script's setup leaves, before onMounted has run
SceneInit ==
    /\ isModelLoaded = FALSE
    /\ session = "none"
    /\ onMountedAt = "loadRobot"
    /\ isPlaying = TRUE
    /\ endEffectorPos = 1
    /\ targetPos = 4
    /\ inFlight = << >>

\* await loadRobot(): the model is loaded, or loadAsync fails and is caught
LoadRobot(ok) ==
    /\ onMountedAt = "loadRobot"
    /\ isModelLoaded' = ok
    /\ onMountedAt' = "init"
    /\ UNCHANGED << session, isPlaying, endEffectorPos, targetPos, inFlight >>
    /\ UNCHANGED widgetVars

\* await controller.value.init(): the session is created, or creation fails
ControllerInit(ok) ==
    /\ onMountedAt = "init"
    /\ session' = IF ok THEN "ready" ELSE "failed"
    /\ onMountedAt' = "done"
    /\ UNCHANGED << isModelLoaded, isPlaying, endEffectorPos, targetPos, inFlight >>
    /\ UNCHANGED widgetVars

\* the three early returns of the frame callback
FrameSkipped == ~isModelLoaded \/ session # "ready" \/ ~isPlaying

\* a call of the frame callback up to its await of predict(obs)
FrameStart(speed) ==
    /\ IF FrameSkipped
       THEN inFlight' = inFlight
       ELSE /\ Len(inFlight) < MaxInFlight
            /\ inFlight' = Append(inFlight, [moveSpeed |-> speed])
    /\ UNCHANGED << isModelLoaded, session, onMountedAt, isPlaying, endEffectorPos, targetPos >>
    /\ UNCHANGED widgetVars

\* endEffectorPos after the move of a frame: towards the target by
\* min(moveSpeed, distance) if distance > 0.01
Moved(pos, target, speed) ==
    LET distance == Abs(target - pos)
        len == IF speed < distance THEN speed ELSE distance
    IN IF distance * 10 > 1
       THEN (IF target > pos THEN pos + len ELSE pos - len)
       ELSE pos

\* the rest of the oldest suspended call, once predict() has settled with an
\* action (hasAction) or with null
FrameResume(hasAction) ==
    /\ inFlight # << >>
    /\ inFlight' = Tail(inFlight)
    /\ endEffectorPos' = IF hasAction
                         THEN Moved(endEffectorPos, targetPos, Head(inFlight).moveSpeed)
                         ELSE endEffectorPos
    /\ UNCHANGED << isModelLoaded, session, onMountedAt, isPlaying, targetPos >>
    /\ UNCHANGED widgetVars

togglePlay ==
    /\ isPlaying' = ~isPlaying
    /\ UNCHANGED << isModelLoaded, session, onMountedAt, endEffectorPos, targetPos, inFlight >>
    /\ UNCHANGED widgetVars

resetScene ==
    /\ targetPos' = 4
    /\ endEffectorPos' = 0
    /\ UNCHANGED << isModelLoaded, session, onMountedAt, isPlaying, inFlight >>
    /\ UNCHANGED widgetVars

randomTarget ==
    /\ \E x \in RandomTargets : targetPos' = x
    /\ UNCHANGED << isModelLoaded, session, onMountedAt, isPlaying, endEffectorPos, inFlight >>
    /\ UNCHANGED widgetVars

(***************************************************************************)
(* Policies.  rnd is the index Math.floor(Math.random() * dirs.length) + 1.*)
(***************************************************************************)
getAction_Random(rnd) == dirs[rnd]

isValid(r, c) == isValidIn(grid, r, c)

\* (tr, tc) after the search loop: the last TARGET cell in row-major order,
\* <<-1, -1>> when there is none
FindTarget(g) ==
    LET ts == { p \in Cells : g[p[1]][p[2]] = TARGET }
    IN IF ts = {} THEN <<-1, -1>>
       ELSE CHOOSE p \in ts :
              \A q \in ts : (q[1] * GRID_SIZE) + q[2] <= (p[1] * GRID_SIZE) + p[2]

\* as GreedyLoop, without the isValid test on the neighbour
RECURSIVE GreedyLoop_AnyNeighbour(_, _, _, _)
GreedyLoop_AnyNeighbour(g, pos, t, k) ==
    IF k = 0 THEN [bestDir |-> 0, minDist |-> 0]
    ELSE LET prev == GreedyLoop_AnyNeighbour(g, pos, t, k - 1)
             nr == pos[1] + dirs[k][1]
             nc == pos[2] + dirs[k][2]
             dist == Abs(nr - t[1]) + Abs(nc - t[2])
         IN IF prev.bestDir = 0 \/ dist < prev.minDist
            THEN [bestDir |-> k, minDist |-> dist]
            ELSE prev

\* bestDir (0 is null) and minDist after the first k directions
RECURSIVE GreedyLoop(_, _, _, _)
GreedyLoop(g, pos, t, k) ==
    IF k = 0 THEN [bestDir |-> 0, minDist |-> 0]
    ELSE LET prev == GreedyLoop(g, pos, t, k - 1)
             nr == pos[1] + dirs[k][1]
             nc == pos[2] + dirs[k][2]
             dist == Abs(nr - t[1]) + Abs(nc - t[2])
         IN IF isValidIn(g, nr, nc) /\ (prev.bestDir = 0 \/ dist < prev.minDist)
            THEN [bestDir |-> k, minDist |-> dist]
            ELSE prev

getAction_Greedy(g, pos, rnd) ==
    LET t == FindTarget(g)
    IN IF t[1] = -1 THEN getAction_Random(rnd)
       ELSE LET best == GreedyLoop(g, pos, t, Len(dirs)).bestDir
            IN IF best = 0 THEN getAction_Random(rnd) ELSE dirs[best]

\* as OptimalLoop, with a later direction of equal value replacing the earlier one
RECURSIVE OptimalLoop_LaterTieWins(_, _, _, _, _, _)
OptimalLoop_LaterTieWins(g, rw, gam, v, pos, k) ==
    IF k = 0 THEN [bestDir |-> 0, maxV |-> 0]
    ELSE LET prev == OptimalLoop_LaterTieWins(g, rw, gam, v, pos, k - 1)
             expectedV == QVal(g, rw, gam, v, pos[1], pos[2], dirs[k])
         IN IF prev.bestDir = 0 \/ expectedV >= prev.maxV
            THEN [bestDir |-> k, maxV |-> expectedV]
            ELSE prev

\* bestDir (0 is null, maxV then being -Infinity) and maxV after the first k directions
RECURSIVE OptimalLoop(_, _, _, _, _, _)
OptimalLoop(g, rw, gam, v, pos, k) ==
    IF k = 0 THEN [bestDir |-> 0, maxV |-> 0]
    ELSE LET prev == OptimalLoop(g, rw, gam, v, pos, k - 1)
             expectedV == QVal(g, rw, gam, v, pos[1], pos[2], dirs[k])
         IN IF prev.bestDir = 0 \/ expectedV > prev.maxV
            THEN [bestDir |-> k, maxV |-> expectedV]
            ELSE prev

\* as getAction_Optimal, with the nearest-neighbour choice of the greedy policy
getAction_Optimal_AsGreedy(g, rw, gam, v, pos, rnd) == getAction_Greedy(g, pos, rnd)

getAction_Optimal(g, rw, gam, v, pos, rnd) ==
    LET best == OptimalLoop(g, rw, gam, v, pos, Len(dirs)).bestDir
    IN IF best = 0 THEN getAction_Random(rnd) ELSE dirs[best]

\* the action step() obtains from the current strategy
selectAction(rnd) ==
    CASE currentStrategy = "random" -> getAction_Random(rnd)
      [] currentStrategy = "greedy" -> getAction_Greedy(grid, agentPos, rnd)
      [] currentStrategy = "optimal" ->
             getAction_Optimal(grid, rewards, gamma, values, agentPos, rnd)

(***************************************************************************)
(* Simulation loop.                                                        *)
(***************************************************************************)
\* as StepResult, with the step cost charged on a bump as well
StepResult_BumpPaysStep(g, rw, pos, act) ==
    IF CellAt(g, pos[1], pos[2]) = TARGET
    THEN [pos |-> pos, reward |-> rw.target, count |-> 0, stops |-> TRUE]
    ELSE LET nr == pos[1] + act[1]
             nc == pos[2] + act[2]
             moved == isValidIn(g, nr, nc)
             pos1 == IF moved THEN <<nr, nc>> ELSE pos
             r1 == rw.step + (IF moved THEN 0 ELSE rw.wall)
             arrived == CellAt(g, pos1[1], pos1[2]) = TARGET
         IN [pos |-> pos1,
             reward |-> r1 + (IF arrived THEN rw.target ELSE 0),
             count |-> 1,
             stops |-> arrived]

\* as StepResult, with the move made before the validity check
StepResult_MovesFirst(g, rw, pos, act) ==
    IF CellAt(g, pos[1], pos[2]) = TARGET
    THEN [pos |-> pos, reward |-> rw.target, count |-> 0, stops |-> TRUE]
    ELSE LET nr == pos[1] + act[1]
             nc == pos[2] + act[2]
             moved == isValidIn(g, nr, nc)
             pos1 == <<nr, nc>>
             r1 == IF moved THEN rw.step ELSE rw.wall
             arrived == CellAt(g, pos1[1], pos1[2]) = TARGET
         IN [pos |-> pos1,
             reward |-> r1 + (IF arrived THEN rw.target ELSE 0),
             count |-> 1,
             stops |-> arrived]

\* as StepResult, without the stop() on arrival at the Target
StepResult_NoStopOnArrival(g, rw, pos, act) ==
    IF CellAt(g, pos[1], pos[2]) = TARGET
    THEN [pos |-> pos, reward |-> rw.target, count |-> 0, stops |-> TRUE]
    ELSE LET nr == pos[1] + act[1]
             nc == pos[2] + act[2]
             moved == isValidIn(g, nr, nc)
             pos1 == IF moved THEN <<nr, nc>> ELSE pos
             r1 == IF moved THEN rw.step ELSE rw.wall
             arrived == CellAt(g, pos1[1], pos1[2]) = TARGET
         IN [pos |-> pos1,
             reward |-> r1 + (IF arrived THEN rw.target ELSE 0),
             count |-> 1,
             stops |-> FALSE]

\* as StepResult, with no step cost on the move that enters the Target
StepResult_ArrivalWithoutStepCost(g, rw, pos, act) ==
    IF CellAt(g, pos[1], pos[2]) = TARGET
    THEN [pos |-> pos, reward |-> rw.target, count |-> 0, stops |-> TRUE]
    ELSE LET nr == pos[1] + act[1]
             nc == pos[2] + act[2]
             moved == isValidIn(g, nr, nc)
             pos1 == IF moved THEN <<nr, nc>> ELSE pos
             r1 == IF moved THEN rw.step ELSE rw.wall
             arrived == CellAt(g, pos1[1], pos1[2]) = TARGET
         IN [pos |-> pos1,
             reward |-> IF arrived THEN rw.target ELSE r1,
             count |-> 1,
             stops |-> arrived]

\* as StepResult, with the step counted when the agent is found on the Target
StepResult_CountsAtTarget(g, rw, pos, act) ==
    IF CellAt(g, pos[1], pos[2]) = TARGET
    THEN [pos |-> pos, reward |-> rw.target, count |-> 1, stops |-> TRUE]
    ELSE LET nr == pos[1] + act[1]
             nc == pos[2] + act[2]
             moved == isValidIn(g, nr, nc)
             pos1 == IF moved THEN <<nr, nc>> ELSE pos
             r1 == IF moved THEN rw.step ELSE rw.wall
             arrived == CellAt(g, pos1[1], pos1[2]) = TARGET
         IN [pos |-> pos1,
             reward |-> r1 + (IF arrived THEN rw.target ELSE 0),
             count |-> 1,
             stops |-> arrived]

\* what one step() with the selected action does: the new position, the
\* amount added to totalReward, the increment of stepCount, whether stop() ran
StepResult(g, rw, pos, act) ==
    IF CellAt(g, pos[1], pos[2]) = TARGET
    THEN [pos |-> pos, reward |-> rw.target, count |-> 0, stops |-> TRUE]
    ELSE LET nr == pos[1] + act[1]
             nc == pos[2] + act[2]
             moved == isValidIn(g, nr, nc)
             pos1 == IF moved THEN <<nr, nc>> ELSE pos
             r1 == IF moved THEN rw.step ELSE rw.wall
             arrived == CellAt(g, pos1[1], pos1[2]) = TARGET
         IN [pos |-> pos1,
             reward |-> r1 + (IF arrived THEN rw.target ELSE 0),
             count |-> 1,
             stops |-> arrived]

\* activeTimers after stop(): if (timer) clearInterval(timer)
ClearedTimers == IF timer # 0 THEN activeTimers \ {timer} ELSE activeTimers

\* as stop, without the clearInterval
stop_LeavesInterval ==
    /\ isRunning' = FALSE
    /\ timer' = timer
    /\ activeTimers' = activeTimers

stop ==
    /\ isRunning' = FALSE
    /\ timer' = timer
    /\ activeTimers' = ClearedTimers

\* as resetAgent, with the agent put on the corner cell (0, 0)
resetAgent_ToCorner ==
    /\ stop
    /\ agentPos' = <<0, 0>>
    /\ stepCount' = 0
    /\ totalReward' = 0

\* resetAgent(); reads the start position as already written by the caller
resetAgent ==
    /\ stop
    /\ agentPos' = startPos'
    /\ stepCount' = 0
    /\ totalReward' = 0

step(rnd) ==
    LET res == StepResult(grid, rewards, agentPos, selectAction(rnd))
    IN /\ agentPos' = res.pos
       /\ totalReward' = totalReward + res.reward
       /\ stepCount' = stepCount + res.count
       /\ IF res.stops THEN stop ELSE UNCHANGED loopVars

\* the handle setInterval returns: one that no live interval has
FreshTimer(live) == CHOOSE t \in 1 .. (Cardinality(live) + 1) : t \notin live

AtTarget == CellAt(grid, agentPos[1], agentPos[2]) = TARGET

\* as start, without the reset of an agent found on the Target
start_NoReset ==
    LET id == FreshTimer(activeTimers)
    IN /\ UNCHANGED episodeVars
       /\ isRunning' = TRUE
       /\ timer' = id
       /\ activeTimers' = activeTimers \cup {id}

start ==
    LET live == IF AtTarget THEN ClearedTimers ELSE activeTimers
        id == FreshTimer(live)
    IN /\ IF AtTarget
          THEN agentPos' = startPos /\ stepCount' = 0 /\ totalReward' = 0
          ELSE UNCHANGED episodeVars
       /\ isRunning' = TRUE
       /\ timer' = id
       /\ activeTimers' = live \cup {id}

\* as toggleRun, with start() called whether or not the loop is running
toggleRun_AlwaysStarts == start

toggleRun == IF isRunning THEN stop /\ UNCHANGED episodeVars ELSE start

\* as solveNow, with solveMDP() run before the handler's writes
solveNow_BeforeWrites ==
    /\ lastSolve' = [grid |-> grid, rewards |-> rewards, gamma |-> gamma,
                     run |-> solveRun(grid, rewards, gamma)]
    /\ values' = lastSolve'.run.v

\* as solveNow, with the call of solveMDP() left out
solveNow_Skipped == UNCHANGED << values, lastSolve >>

\* solveMDP() run on the configuration as the handler leaves it
solveNow ==
    /\ lastSolve' = [grid |-> grid', rewards |-> rewards', gamma |-> gamma',
                     run |-> solveRun(grid', rewards', gamma')]
    /\ values' = lastSolve'.run.v

(***************************************************************************)
(* Grid editor.                                                            *)
(***************************************************************************)
\* as EditGrid, with the target tool not clearing the former Target
EditGrid_KeepsFormerTarget(g, tool, r, c) ==
    CASE tool = "start" ->
             IF g[r][c] = TARGET \/ g[r][c] = FORBIDDEN
             THEN [g EXCEPT ![r][c] = EMPTY] ELSE g
      [] tool = "target" -> [g EXCEPT ![r][c] = TARGET]
      [] tool = "forbidden" -> [g EXCEPT ![r][c] = FORBIDDEN]
      [] tool = "empty" -> [g EXCEPT ![r][c] = EMPTY]

\* the cells of the grid after handleCellClick(r, c) with the given tool, for any
\* integers r and c.  Beyond the grid, a read grid[r][c] within a row yields
\* undefined and a write adds a property to the row that is no cell of the grid;
\* with no row r the access raises (Throws), after the target tool's clearing loop.
EditGrid(g, tool, r, c) ==
    CASE tool = "start" ->
             IF CellAt(g, r, c) = TARGET \/ CellAt(g, r, c) = FORBIDDEN
             THEN [g EXCEPT ![r][c] = EMPTY] ELSE g
      [] tool = "target" ->
             [i \in Idx |-> [j \in Idx |->
                 IF i = r /\ j = c THEN TARGET
                 ELSE IF g[i][j] = TARGET THEN EMPTY ELSE g[i][j]]]
      [] tool = "forbidden" ->
             IF r \in Idx /\ c \in Idx THEN [g EXCEPT ![r][c] = FORBIDDEN] ELSE g
      [] tool = "empty" ->
             IF r \in Idx /\ c \in Idx THEN [g EXCEPT ![r][c] = EMPTY] ELSE g

\* grid[r] is undefined, so that the handler's access grid[r][c] raises a TypeError
\* and the rest of the handler does not run
Throws(r) == r \notin Idx

\* as ClickIgnored, without the early return
ClickIgnored_Never == FALSE

\* if (isRunning.value) return
ClickIgnored == isRunning

handleCellClick(r, c) ==
    IF ClickIgnored
    THEN UNCHANGED << cfgVars, episodeVars, loopVars >>
    ELSE /\ grid' = EditGrid(grid, currentTool, r, c)
         /\ IF currentTool = "start"
            THEN /\ startPos' = <<r, c>>
                 /\ IF Throws(r) THEN UNCHANGED << episodeVars, loopVars >> ELSE resetAgent
            ELSE UNCHANGED << startPos, episodeVars, loopVars >>
         /\ UNCHANGED << rewards, gamma >>
         /\ IF Throws(r) THEN UNCHANGED << values, lastSolve >> ELSE solveNow
         /\ edits' = edits + 1

(***************************************************************************)
(* Events.  A handler runs to completion; the queued watcher job is        *)
(* flushed in a microtask, before the next event is handled.               *)
(***************************************************************************)
DefaultRewards == [step |-> -1, target |-> 10, wall |-> -5]
DefaultGamma == 90

InitGrid == [r \in Idx |-> [c \in Idx |->
                IF r = GRID_SIZE - 1 /\ c = GRID_SIZE - 1 THEN TARGET ELSE EMPTY]]

\* the state once onMounted has run
Init ==
    /\ grid = InitGrid
    /\ startPos = <<0, 0>>
    /\ agentPos = <<0, 0>>
    /\ rewards = DefaultRewards
    /\ gamma = DefaultGamma
    /\ currentTool = "forbidden"
    /\ currentStrategy = "random"
    /\ isRunning = FALSE
    /\ stepCount = 0
    /\ totalReward = 0
    /\ timer = 0
    /\ activeTimers = {}
    /\ lastSolve = [grid |-> InitGrid, rewards |-> DefaultRewards, gamma |-> DefaultGamma,
                    run |-> solveRun(InitGrid, DefaultRewards, DefaultGamma)]
    /\ values = lastSolve.run.v
    /\ watchQueued = FALSE
    /\ lastOp = "mount"
    /\ edits = 0
    /\ SceneInit

\* step() calls the exploration follows
StepInBounds == stepCount < MaxSteps /\ Abs(totalReward) <= MaxAbsReward

SelectTool(t) ==
    /\ ~watchQueued
    /\ t # currentTool
    /\ currentTool' = t
    /\ UNCHANGED << cfgVars, episodeVars, loopVars, currentStrategy, watchQueued, lastOp >>
    /\ UNCHANGED sceneVars

SelectStrategy(st) ==
    /\ ~watchQueued
    /\ st # currentStrategy
    /\ currentStrategy' = st
    /\ UNCHANGED << cfgVars, episodeVars, loopVars, currentTool, watchQueued, lastOp >>
    /\ UNCHANGED sceneVars

CellClick(r, c) ==
    /\ ~watchQueued
    /\ ClickIgnored \/ edits < MaxEdits
    /\ handleCellClick(r, c)
    /\ lastOp' = "click"
    /\ UNCHANGED << currentTool, currentStrategy, watchQueued >>
    /\ UNCHANGED sceneVars

\* as StepDisabled, with the button always enabled
StepDisabled_Never == FALSE

\* :disabled="isRunning" on the single-step button
StepDisabled == isRunning

StepButton ==
    /\ ~watchQueued
    /\ IF StepDisabled
       THEN UNCHANGED << episodeVars, loopVars >>
       ELSE StepInBounds /\ \E rnd \in 1 .. Len(dirs) : step(rnd)
    /\ lastOp' = "stepBtn"
    /\ UNCHANGED << cfgVars, currentTool, currentStrategy, watchQueued >>
    /\ UNCHANGED sceneVars

\* a firing of a live interval
Tick ==
    /\ ~watchQueued
    /\ activeTimers # {}
    /\ StepInBounds
    /\ \E rnd \in 1 .. Len(dirs) : step(rnd)
    /\ lastOp' = "tick"
    /\ UNCHANGED << cfgVars, currentTool, currentStrategy, watchQueued >>
    /\ UNCHANGED sceneVars

ToggleButton ==
    /\ ~watchQueued
    /\ toggleRun
    /\ lastOp' = IF isRunning THEN "togglePause"
                 ELSE IF AtTarget THEN "toggleRestart" ELSE "toggleStart"
    /\ UNCHANGED << cfgVars, currentTool, currentStrategy, watchQueued >>
    /\ UNCHANGED sceneVars

ResetButton ==
    /\ ~watchQueued
    /\ startPos' = startPos
    /\ resetAgent
    /\ lastOp' = IF isRunning THEN "resetRunning" ELSE "reset"
    /\ UNCHANGED << grid, rewards, gamma, values, lastSolve, edits,
                    currentTool, currentStrategy, watchQueued >>
    /\ UNCHANGED sceneVars

\* v-model.number on a reward input
SetReward(kind, val) ==
    /\ ~watchQueued
    /\ edits < MaxEdits
    /\ val # rewards[kind]
    /\ rewards' = [rewards EXCEPT ![kind] = val]
    /\ watchQueued' = TRUE
    /\ edits' = edits + 1
    /\ UNCHANGED << grid, startPos, gamma, values, lastSolve, episodeVars, loopVars,
                    currentTool, currentStrategy, lastOp >>
    /\ UNCHANGED sceneVars

\* v-model.number on the discount input
SetGamma(val) ==
    /\ ~watchQueued
    /\ edits < MaxEdits
    /\ val # gamma
    /\ gamma' = val
    /\ watchQueued' = TRUE
    /\ edits' = edits + 1
    /\ UNCHANGED << grid, startPos, rewards, values, lastSolve, episodeVars, loopVars,
                    currentTool, currentStrategy, lastOp >>
    /\ UNCHANGED sceneVars

\* as FlushWatch, with a callback that does not solve
FlushWatch_NoSolve ==
    /\ watchQueued
    /\ watchQueued' = FALSE
    /\ lastOp' = "watch"
    /\ UNCHANGED << cfgVars, episodeVars, loopVars, currentTool, currentStrategy >>
    /\ UNCHANGED sceneVars

\* watch([gamma, rewards], () => solveMDP(), { deep: true })
FlushWatch ==
    /\ watchQueued
    /\ watchQueued' = FALSE
    /\ UNCHANGED << grid, rewards, gamma >>
    /\ solveNow
    /\ lastOp' = "watch"
    /\ UNCHANGED << startPos, edits, episodeVars, loopVars, currentTool, currentStrategy >>
    /\ UNCHANGED sceneVars

Next ==
    \/ \E t \in Tools : SelectTool(t)
    \/ \E st \in Strategies : SelectStrategy(st)
    \/ \E p \in ClickCells : CellClick(p[1], p[2])
    \/ StepButton
    \/ Tick
    \/ ToggleButton
    \/ ResetButton
    \/ \E kind \in RewardKinds : \E val \in RewardInputs[kind] : SetReward(kind, val)
    \/ \E val \in GammaInputs : SetGamma(val)
    \/ FlushWatch

Spec == Init /\ [][Next]_vars

(***************************************************************************)
(* The simulation loop on edited grids.  The initial states are the states *)
(* the widget is in after up to two cell clicks made right after mounting; *)
(* the events are those of the control panel and the timer.                *)
(***************************************************************************)
GridTools == {"target", "forbidden", "empty"}
LoopClickCells == { <<0, 1>>, <<1, 0>>, <<1, 1>>, <<GRID_SIZE - 1, GRID_SIZE - 1>> }

\* grid, tool and number of clicks after one more click
ClickedOnce(cfg) ==
    { [grid |-> EditGrid(cfg.grid, t, p[1], p[2]), tool |-> t, clicks |-> cfg.clicks + 1] :
        t \in GridTools, p \in LoopClickCells }

MountedConfig == [grid |-> InitGrid, tool |-> "forbidden", clicks |-> 0]

LoopConfigs ==
    {MountedConfig} \cup ClickedOnce(MountedConfig)
        \cup UNION { ClickedOnce(cfg) : cfg \in ClickedOnce(MountedConfig) }

InitLoop ==
    \E cfg \in LoopConfigs :
        /\ grid = cfg.grid
        /\ currentTool = cfg.tool
        /\ edits = cfg.clicks
        /\ lastOp = IF cfg.clicks = 0 THEN "mount" ELSE "click"
        /\ startPos = <<0, 0>>
        /\ agentPos = <<0, 0>>
        /\ rewards = DefaultRewards
        /\ gamma = DefaultGamma
        /\ currentStrategy = "random"
        /\ isRunning = FALSE
        /\ stepCount = 0
        /\ totalReward = 0
        /\ timer = 0
        /\ activeTimers = {}
        /\ lastSolve = [grid |-> cfg.grid, rewards |-> DefaultRewards, gamma |-> DefaultGamma,
                        run |-> solveRun(cfg.grid, DefaultRewards, DefaultGamma)]
        /\ values = lastSolve.run.v
        /\ watchQueued = FALSE
        /\ SceneInit

NextLoop ==
    \/ \E st \in Strategies : SelectStrategy(st)
    \/ StepButton
    \/ Tick
    \/ ToggleButton
    \/ ResetButton

LoopSpec == InitLoop /\ [][NextLoop]_vars

(***************************************************************************)
(* The solver as a function of the configuration: the initial states draw  *)
(* a grid, a reward setting and a discount factor, with the value table as *)
(* constructed (all zero); the one step is a call of solveMDP().           *)
(***************************************************************************)
SolverRewards == { DefaultRewards,
                   [step |-> 1, target |-> 10, wall |-> -5],
                   [step |-> -1, target |-> 10, wall |-> 2] }
SolverGammas == {0, 20, 50, 90, 99}

InitSolver ==
    \E cfg \in LoopConfigs : \E rw \in SolverRewards : \E gam \in SolverGammas :
        /\ grid = cfg.grid
        /\ currentTool = cfg.tool
        /\ edits = cfg.clicks
        /\ lastOp = "config"
        /\ startPos = <<0, 0>>
        /\ agentPos = <<0, 0>>
        /\ rewards = rw
        /\ gamma = gam
        /\ currentStrategy = "random"
        /\ isRunning = FALSE
        /\ stepCount = 0
        /\ totalReward = 0
        /\ timer = 0
        /\ activeTimers = {}
        /\ lastSolve = [grid |-> cfg.grid, rewards |-> rw, gamma |-> gam,
                        run |-> [v |-> ZeroTable, changed |-> TRUE, iters |-> 0]]
        /\ values = ZeroTable
        /\ watchQueued = FALSE
        /\ SceneInit

SolveCall ==
    /\ lastOp = "config"
    /\ UNCHANGED << grid, rewards, gamma >>
    /\ solveNow
    /\ lastOp' = "solve"
    /\ UNCHANGED << startPos, edits, episodeVars, loopVars, currentTool, currentStrategy,
                    watchQueued >>
    /\ UNCHANGED sceneVars

NextSolver == SolveCall

SolverSpec == InitSolver /\ [][NextSolver]_vars

(***************************************************************************)
(* The policies as functions of the grid and the agent's cell: the initial *)
(* states are those the widget is in after up to two cell clicks and a     *)
(* click of the start tool, which puts Start and agent on the clicked      *)
(* cell; the events are the strategy selection and the single-step button. *)
(***************************************************************************)
PolicyCells == { <<0, 0>>, <<1, 1>>, <<2, 2>>, <<GRID_SIZE - 1, GRID_SIZE - 2>> }

InitPolicy ==
    \E cfg \in LoopConfigs : \E p \in PolicyCells :
        /\ grid = EditGrid(cfg.grid, "start", p[1], p[2])
        /\ currentTool = "start"
        /\ edits = cfg.clicks + 1
        /\ lastOp = "click"
        /\ startPos = p
        /\ agentPos = p
        /\ rewards = DefaultRewards
        /\ gamma = DefaultGamma
        /\ currentStrategy = "random"
        /\ isRunning = FALSE
        /\ stepCount = 0
        /\ totalReward = 0
        /\ timer = 0
        /\ activeTimers = {}
        /\ lastSolve = [grid |-> grid, rewards |-> DefaultRewards, gamma |-> DefaultGamma,
                        run |-> solveRun(grid, DefaultRewards, DefaultGamma)]
        /\ values = lastSolve.run.v
        /\ watchQueued = FALSE
        /\ SceneInit

NextPolicy ==
    \/ \E st \in Strategies : SelectStrategy(st)
    \/ StepButton

PolicySpec == InitPolicy /\ [][NextPolicy]_vars

(***************************************************************************)
(* The click handler as a function of its arguments: the initial states    *)
(* are those the widget is in after at most one cell click, with the loop  *)
(* running or not; the one call of handleCellClick(r, c) takes r and c     *)
(* from the grid's edges and from one beyond them.                         *)
(***************************************************************************)
EditorCoords == { -1, 0, GRID_SIZE - 1, GRID_SIZE }

InitEditor ==
    \E cfg \in {MountedConfig} \cup ClickedOnce(MountedConfig) : \E run \in BOOLEAN :
        /\ grid = cfg.grid
        /\ currentTool = cfg.tool
        /\ edits = cfg.clicks
        /\ lastOp = "config"
        /\ startPos = <<0, 0>>
        /\ agentPos = <<0, 0>>
        /\ rewards = DefaultRewards
        /\ gamma = DefaultGamma
        /\ currentStrategy = "random"
        /\ isRunning = run
        /\ stepCount = 0
        /\ totalReward = 0
        /\ timer = IF run THEN 1 ELSE 0
        /\ activeTimers = IF run THEN {1} ELSE {}
        /\ lastSolve = [grid |-> cfg.grid, rewards |-> DefaultRewards, gamma |-> DefaultGamma,
                        run |-> solveRun(cfg.grid, DefaultRewards, DefaultGamma)]
        /\ values = lastSolve.run.v
        /\ watchQueued = FALSE
        /\ SceneInit

\* one call handleCellClick(r, c); lastOp records whether it raised
HandlerCall(r, c) ==
    /\ lastOp = "config"
    /\ handleCellClick(r, c)
    /\ lastOp' = IF ~ClickIgnored /\ Throws(r) THEN "clickError" ELSE "click"
    /\ UNCHANGED << currentTool, currentStrategy, watchQueued >>
    /\ UNCHANGED sceneVars

NextEditor ==
    \/ \E t \in Tools : SelectTool(t)
    \/ \E r \in EditorCoords : \E c \in EditorCoords : HandlerCall(r, c)

EditorSpec == InitEditor /\ [][NextEditor]_vars

(***************************************************************************)
(* Properties.                                                             *)
(***************************************************************************)
StepOps == {"stepBtn", "tick"}

\* a transition in which step() ran
StepEvent == Tick \/ (StepButton /\ ~StepDisabled)

\* the cell the action selected under rnd leads to
SelectedCell(rnd) ==
    << agentPos[1] + selectAction(rnd)[1], agentPos[2] + selectAction(rnd)[2] >>

TargetCells == { p \in Cells : grid[p[1]][p[2]] = TARGET }

\* the last event was a step() that left the agent on the Target: it has
\* applied reward.target and stopped the loop, and no reset came since
EpisodeEnded == lastOp \in StepOps /\ ~isRunning /\ grid[agentPos[1]][agentPos[2]] = TARGET

\* C1: once the agent is on the Target and step() has applied reward.target and
\* stopped the loop, a further step() before any reset is a no-op: it leaves agent
\* position, step count and cumulative reward unchanged.
C1_LaterStepIsNoOp ==
    [][ (EpisodeEnded /\ StepButton) => UNCHANGED << agentPos, stepCount, totalReward >> ]_vars

\* C2: a step() that starts off the Target and whose selected action leads off-grid
\* or into a Forbidden cell leaves the agent where it is and adds exactly
\* reward.wall to the cumulative reward, whatever the policy.
C2_BumpInvariance ==
    [][ \A rnd \in 1 .. Len(dirs) :
          ( /\ StepEvent
            /\ step(rnd)
            /\ grid[agentPos[1]][agentPos[2]] # TARGET
            /\ LET p == SelectedCell(rnd)
               IN ~(p \in Cells /\ grid[p[1]][p[2]] # FORBIDDEN) )
          => /\ agentPos' = agentPos
             /\ totalReward' = totalReward + rewards.wall ]_vars

\* every neighbour of the agent is off-grid or Forbidden
Trapped ==
    \A k \in 1 .. Len(dirs) :
        LET p == << agentPos[1] + dirs[k][1], agentPos[2] + dirs[k][2] >>
        IN ~(p \in Cells /\ grid[p[1]][p[2]] # FORBIDDEN)

\* a first step() of a non-random policy has bumped on a start cell walled in by Forbidden cells
C2_Witness ==
    /\ Trapped
    /\ currentStrategy # "random"
    /\ lastOp \in StepOps
    /\ stepCount = 1
    /\ agentPos = startPos
    /\ totalReward = rewards.wall

\* C3 as stated: the grid always has exactly one Start location and exactly one
\* cell classified Target.
C3_ExactlyOneTarget == startPos \in Cells /\ Cardinality(TargetCells) = 1

\* C3: after any sequence of grid edits the grid has exactly one Start location
\* and at most one cell classified Target.
C3_AtMostOneTarget == startPos \in Cells /\ Cardinality(TargetCells) <= 1

\* the target tool has moved the Target next to the Start cell and cleared its former cell
C3_Witness ==
    /\ lastOp = "click"
    /\ currentTool = "target"
    /\ grid[0][1] = TARGET
    /\ grid[GRID_SIZE - 1][GRID_SIZE - 1] = EMPTY

\* C4: the agent position is within the grid in every reachable state.
C4_AgentInBounds ==
    /\ 0 <= agentPos[1] /\ agentPos[1] < GRID_SIZE
    /\ 0 <= agentPos[2] /\ agentPos[2] < GRID_SIZE

\* the agent has walked two cells away from the corner it started in, after an edit
C4_Witness ==
    /\ stepCount = 2
    /\ agentPos[1] + agentPos[2] = 2
    /\ edits > 0
    /\ lastOp = "tick"

\* the published table is the solver's result for the configuration as it is now
ValuesFresh ==
    /\ lastSolve.grid = grid
    /\ lastSolve.rewards = rewards
    /\ lastSolve.gamma = gamma
    /\ values = lastSolve.run.v

\* C5: whenever step() executes, manually or on a tick, the value table is the
\* one the solver computed for the current grid, rewards and discount factor.
C5_ValueTableFresh == [][ StepEvent => ValuesFresh ]_vars

\* the Optimal policy has stepped after a configuration edit and its re-solve
C5_Witness ==
    /\ lastOp \in StepOps
    /\ stepCount > 0
    /\ edits > 0
    /\ ~watchQueued
    /\ currentStrategy = "optimal"
    /\ (grid # InitGrid \/ rewards # DefaultRewards \/ gamma # DefaultGamma)

\* C6: a cell click while the simulation is running changes nothing of grid, start
\* position, agent position, step count, cumulative reward, running flag, value table.
C6_ClickWhileRunningIgnored ==
    [][ (isRunning /\ \E p \in ClickCells : CellClick(p[1], p[2]))
        => UNCHANGED << grid, startPos, agentPos, stepCount, totalReward, isRunning,
                        values >> ]_vars

\* the last click fell on the grid while the simulation was running
C6_Witness == isRunning /\ lastOp = "click" /\ stepCount > 0

\* C7: a click on the single-step button while running changes neither agent
\* position, step count, cumulative reward nor the running flag, and while
\* running the step count advances through timer ticks only.
C7_ManualStepWhileRunning ==
    [][ isRunning =>
          /\ StepButton => UNCHANGED << agentPos, stepCount, totalReward, isRunning >>
          /\ stepCount' > stepCount => Tick ]_vars

\* the last click fell on the single-step button while the simulation was running
C7_Witness == isRunning /\ lastOp = "stepBtn" /\ stepCount > 0

\* C8 as stated: while running, no write to the rewards or the discount factor
\* takes effect and no re-solve replaces the value table.
C8_NoConfigChangeWhileRunning ==
    [][ isRunning => (rewards' = rewards /\ gamma' = gamma /\ values' = values) ]_vars

\* C8: a write to a reward or to the discount factor made while running takes
\* effect, and its re-solve is the next thing to run: it replaces the value table
\* by the one solved for the new setting before any further step() or other event.
C8_ResolveBeforeNextTick ==
    [][ (isRunning /\ watchQueued)
        => /\ lastOp' = "watch"
           /\ ~watchQueued'
           /\ lastSolve'.grid = grid' /\ lastSolve'.rewards = rewards'
           /\ lastSolve'.gamma = gamma' /\ values' = lastSolve'.run.v
           /\ (lastSolve'.rewards # lastSolve.rewards \/ lastSolve'.gamma # lastSolve.gamma)
           /\ UNCHANGED << agentPos, stepCount, totalReward, isRunning, rewards, gamma >> ]_vars

\* a reward or discount write was made and re-solved while running, and a tick followed
C8_Witness ==
    /\ isRunning
    /\ lastOp = "tick"
    /\ ~watchQueued
    /\ edits > 0
    /\ grid = InitGrid
    /\ (rewards # DefaultRewards \/ gamma # DefaultGamma)
    /\ stepCount = 1

\* C9: after a solve the value table holds exactly 0 at the Target cell and at
\* every Forbidden cell.
C9_TerminalZeroing ==
    \A p \in Cells :
        (grid[p[1]][p[2]] = TARGET \/ grid[p[1]][p[2]] = FORBIDDEN) => values[p[1]][p[2]] = 0

\* a solve ran on a grid with a Target and a Forbidden cell and produced nonzero values
C9_Witness ==
    /\ lastOp = "solve"
    /\ \E p \in Cells : grid[p[1]][p[2]] = TARGET
    /\ \E p \in Cells : grid[p[1]][p[2]] = FORBIDDEN
    /\ \E p \in Cells : values[p[1]][p[2]] # 0

\* one more full sweep of the Bellman backup over the published table
BellmanBackup(r, c) ==
    IF grid[r][c] = TARGET \/ grid[r][c] = FORBIDDEN THEN 0
    ELSE MaxQ(grid, rewards, gamma, values, r, c)

\* no entry moves by more than 0.001 under one more sweep
FixedPointWithinTolerance ==
    \A p \in Cells : Abs(BellmanBackup(p[1], p[2]) - values[p[1]][p[2]]) <= Tolerance

ProbeIdx == (-1) .. GRID_SIZE

\* C11: isValid(r, c) is true exactly when (r, c) lies within the grid and the
\* cell is not Forbidden, so that Target and Empty cells are valid (the Start
\* location has no cell value of its own), and every out-of-range coordinate is
\* invalid, the grid not being read for it.
C11_IsValidIffInGridAndNotForbidden ==
    /\ \A p \in Cells : isValid(p[1], p[2]) <=> grid[p[1]][p[2]] # FORBIDDEN
    /\ \A p \in Cells : grid[p[1]][p[2]] \in {TARGET, EMPTY} => isValid(p[1], p[2])
    /\ \A r \in ProbeIdx : \A c \in ProbeIdx : <<r, c>> \notin Cells => ~isValid(r, c)

\* a step has moved the agent onto the Target of a grid that has a Forbidden cell
C11_Witness ==
    /\ lastOp = "stepBtn"
    /\ stepCount = 1
    /\ grid[agentPos[1]][agentPos[2]] = TARGET
    /\ \E p \in Cells : grid[p[1]][p[2]] = FORBIDDEN

Right == <<0, 1>>
Left == <<0, -1>>
Down == <<1, 0>>
Up == <<-1, 0>>

\* the one-step lookahead of direction k from cell pos over the published table
Lookahead(pos, k) ==
    LET nr == pos[1] + dirs[k][1]
        nc == pos[2] + dirs[k][2]
    IN IF <<nr, nc>> \in Cells /\ grid[nr][nc] # FORBIDDEN
       THEN ((rewards.step + (IF grid[nr][nc] = TARGET THEN rewards.target ELSE 0)) * Scale)
            + MulGamma(gamma, values[nr][nc])
       ELSE (rewards.wall * Scale) + MulGamma(gamma, values[pos[1]][pos[2]])

\* the first direction, in the order of dirs, whose lookahead from pos is maximal
FirstBest(pos) ==
    CHOOSE k \in 1 .. Len(dirs) :
        /\ \A j \in 1 .. Len(dirs) : Lookahead(pos, j) <= Lookahead(pos, k)
        /\ \A j \in 1 .. (k - 1) : Lookahead(pos, j) < Lookahead(pos, k)

\* C12: the direction the Optimal policy selects maximises the one-step lookahead
\* from the agent's cell, and among the directions that tie for the maximum it is
\* the first in the order Right, Left, Down, Up.
C12_OptimalIsFirstMaximiser ==
    /\ dirs = << Right, Left, Down, Up >>
    /\ \A rnd \in 1 .. Len(dirs) :
          getAction_Optimal(grid, rewards, gamma, values, agentPos, rnd)
              = dirs[FirstBest(agentPos)]

\* the Optimal policy has stepped from a Start cell where Right tied with another
\* direction for the maximal lookahead, and the agent went Right
C12_Witness ==
    /\ lastOp = "stepBtn"
    /\ currentStrategy = "optimal"
    /\ stepCount = 1
    /\ \E k \in 2 .. Len(dirs) : Lookahead(startPos, k) = Lookahead(startPos, 1)
    /\ FirstBest(startPos) = 1
    /\ agentPos = << startPos[1], startPos[2] + 1 >>

\* the cell one move in direction k from pos
Neighbour(pos, k) == << pos[1] + dirs[k][1], pos[2] + dirs[k][2] >>

\* the directions from pos that lead to a cell of the grid that is not Forbidden
ValidDirs(pos) ==
    { k \in 1 .. Len(dirs) :
        Neighbour(pos, k) \in Cells /\ grid[Neighbour(pos, k)[1]][Neighbour(pos, k)[2]] # FORBIDDEN }

\* Manhattan distance between two cells
Manhattan(p, q) == Abs(p[1] - q[1]) + Abs(p[2] - q[2])

\* C13: on a grid with a Target, when some neighbour of the agent is a valid move
\* the Greedy policy selects a direction to a valid cell whose Manhattan distance
\* to the Target is minimal among the valid neighbours; when no neighbour is valid
\* it returns the Random choice.
C13_GreedyNearestValid ==
    TargetCells # {} =>
        LET t == CHOOSE q \in TargetCells : TRUE
        IN \A rnd \in 1 .. Len(dirs) :
             LET a == getAction_Greedy(grid, agentPos, rnd)
             IN IF ValidDirs(agentPos) # {}
                THEN \E k \in ValidDirs(agentPos) :
                        /\ a = dirs[k]
                        /\ \A j \in ValidDirs(agentPos) :
                              Manhattan(Neighbour(agentPos, k), t)
                                  <= Manhattan(Neighbour(agentPos, j), t)
                ELSE a = getAction_Random(rnd)

\* the Greedy policy has stepped Down from the corner Start cell whose right
\* neighbour, as near to the Target as the lower one, is Forbidden
C13_Witness ==
    /\ lastOp = "stepBtn"
    /\ currentStrategy = "greedy"
    /\ stepCount = 1
    /\ startPos = <<0, 0>>
    /\ grid[0][1] = FORBIDDEN
    /\ grid[GRID_SIZE - 1][GRID_SIZE - 1] = TARGET
    /\ agentPos = <<1, 0>>

\* C14: start() resets the episode first if it finds the agent on the Target
\* (agent on the Start cell, step count and cumulative reward zero) and leaves it
\* as it is otherwise; it sets the running flag and installs the one interval
\* whose firings call step(), so that a running loop has exactly one live interval.
C14_StartResetsAtTargetAndRuns ==
    [][ /\ (~isRunning /\ ToggleButton) =>
              /\ IF AtTarget
                 THEN agentPos' = startPos /\ stepCount' = 0 /\ totalReward' = 0
                 ELSE UNCHANGED << agentPos, stepCount, totalReward >>
              /\ isRunning'
              /\ timer' # 0
        /\ isRunning' => activeTimers' = {timer'} ]_vars

\* start() found the agent on the Target, reset the episode and set the loop running
C14_Witness ==
    /\ lastOp = "toggleRestart"
    /\ isRunning
    /\ agentPos = startPos
    /\ stepCount = 0
    /\ totalReward = 0
    /\ activeTimers = {timer}
    /\ TargetCells # {}

\* C15: stop(), as called by the pause click, cancels the interval and clears the
\* running flag and leaves agent position, step count, cumulative reward, grid and
\* value table unchanged; the timer calls step() only while the loop is running,
\* and only start() sets it running again.
C15_StopCancelsAndKeepsState ==
    [][ /\ (isRunning /\ ToggleButton) =>
              /\ ~isRunning'
              /\ activeTimers' = {}
              /\ UNCHANGED << agentPos, stepCount, totalReward, grid, values >>
        /\ Tick => isRunning
        /\ (~isRunning /\ isRunning') => ToggleButton ]_vars

\* a running loop was paused after a step, away from the Target
C15_Witness ==
    /\ lastOp = "togglePause"
    /\ ~isRunning
    /\ stepCount > 0
    /\ activeTimers = {}
    /\ timer # 0
    /\ grid[agentPos[1]][agentPos[2]] # TARGET

\* C16: reset, from any state, stops the loop, puts the agent on the current
\* Start cell and zeroes step count and cumulative reward, leaving grid, start
\* position, rewards, discount factor and value table unchanged.
C16_ResetRestoresEpisode ==
    [][ ResetButton =>
          /\ ~isRunning'
          /\ activeTimers' = {}
          /\ agentPos' = startPos
          /\ stepCount' = 0
          /\ totalReward' = 0
          /\ UNCHANGED << grid, startPos, rewards, gamma, values >> ]_vars

\* a running loop was reset after the Start cell had been moved off the corner
C16_Witness ==
    /\ lastOp = "resetRunning"
    /\ startPos # <<0, 0>>
    /\ agentPos = startPos
    /\ stepCount = 0
    /\ totalReward = 0
    /\ ~isRunning
    /\ activeTimers = {}
    /\ timer # 0

\* C17: a timer-driven step() that moves the agent onto the Target clears the
\* running flag and cancels the interval within that step; from then on neither
\* the timer nor the watcher acts, so the state stays as it is until a user event.
C17_ArrivalEndsRun ==
    [][ /\ (Tick /\ agentPos' # agentPos /\ grid[agentPos'[1]][agentPos'[2]] = TARGET) =>
              (~isRunning' /\ activeTimers' = {})
        /\ (lastOp = "tick" /\ AtTarget) => (~Tick /\ ~FlushWatch) ]_vars

\* a timer-driven step has moved the agent onto the Target and the run has ended
C17_Witness ==
    /\ lastOp = "tick"
    /\ AtTarget
    /\ agentPos # startPos
    /\ stepCount > 0
    /\ totalReward = (stepCount * rewards.step) + rewards.target
    /\ ~isRunning
    /\ activeTimers = {}

\* C18: a call of the click handler with a row or column outside the grid raises
\* no error and leaves grid, start position, agent position and value table
\* unchanged.
C18_OutOfRangeClickIgnored ==
    [][ \A r \in EditorCoords : \A c \in EditorCoords :
          (<<r, c>> \notin Cells /\ HandlerCall(r, c)) =>
              /\ lastOp' # "clickError"
              /\ UNCHANGED << grid, startPos, agentPos, values >> ]_vars

\* C19: a step() that starts off the Target adds exactly 1 to the step count,
\* whether it moves or bumps; when the selected action leads to a valid cell the
\* agent moves there and the cumulative reward grows by reward.step, plus
\* reward.target when that cell is the Target, in which case the loop also stops.
C19_ValidMove ==
    [][ \A rnd \in 1 .. Len(dirs) :
          (StepEvent /\ step(rnd) /\ grid[agentPos[1]][agentPos[2]] # TARGET) =>
              /\ stepCount' = stepCount + 1
              /\ LET p == SelectedCell(rnd)
                 IN (p \in Cells /\ grid[p[1]][p[2]] # FORBIDDEN) =>
                       /\ agentPos' = p
                       /\ totalReward' = totalReward + rewards.step
                             + (IF grid[p[1]][p[2]] = TARGET THEN rewards.target ELSE 0)
                       /\ grid[p[1]][p[2]] = TARGET => (~isRunning' /\ activeTimers' = {}) ]_vars

\* a single manual step has moved the agent from the Start cell onto the Target
C19_Witness ==
    /\ lastOp = "stepBtn"
    /\ stepCount = 1
    /\ agentPos # startPos
    /\ grid[agentPos[1]][agentPos[2]] = TARGET
    /\ totalReward = rewards.step + rewards.target
    /\ ~isRunning

\* C20: a step() that finds the agent on the Target adds reward.target to the
\* cumulative reward, clears the running flag and cancels the interval, and
\* leaves agent position and step count unchanged.
C20_StepOnTarget ==
    [][ (StepEvent /\ AtTarget) =>
          /\ totalReward' = totalReward + rewards.target
          /\ ~isRunning'
          /\ activeTimers' = {}
          /\ UNCHANGED << agentPos, stepCount >> ]_vars

\* the first tick of a run started with the Target on the Start cell has ended the run
C20_Witness ==
    /\ lastOp = "tick"
    /\ agentPos = startPos
    /\ AtTarget
    /\ stepCount = 0
    /\ totalReward = rewards.target
    /\ ~isRunning
    /\ activeTimers = {}
    /\ timer # 0

(***************************************************************************)
(* C21: the solved values against the Manhattan distance to the Target on  *)
(* a grid without Forbidden cells.                                         *)
(***************************************************************************)
ObstacleFree == \A p \in Cells : grid[p[1]][p[2]] # FORBIDDEN

\* the cells the solver backs up (neither Target nor Forbidden)
NonTerminalCells == { p \in Cells : ~IsTerminalCell(grid, p[1], p[2]) }

\* the Manhattan distance from p to the Target
DistToTarget(p) == LET t == CHOOSE q \in TargetCells : TRUE IN Manhattan(p, t)

\* a solve has run on an obstacle-free grid with a Target, 0 < gamma < 1
\* and step < 0 < target
MonotoneCase ==
    /\ lastOp = "solve"
    /\ ObstacleFree
    /\ TargetCells # {}
    /\ 0 < gamma /\ gamma < GammaDen
    /\ rewards.step < 0 /\ 0 < rewards.target

EqualAtEqualDistance ==
    \A p, q \in NonTerminalCells :
        DistToTarget(p) = DistToTarget(q) => values[p[1]][p[2]] = values[q[1]][q[2]]

NonIncreasingInDistance ==
    \A p, q \in NonTerminalCells :
        DistToTarget(p) < DistToTarget(q) => values[p[1]][p[2]] >= values[q[1]][q[2]]

StrictlyDecreasingInDistance ==
    \A p, q \in NonTerminalCells :
        DistToTarget(p) < DistToTarget(q) => values[p[1]][p[2]] > values[q[1]][q[2]]

\* C21 (as stated): on a grid with no Forbidden cells, for every 0 < gamma < 1
\* and every reward setting with step < 0 < target, the solved value strictly
\* decreases as the Manhattan distance to the Target increases, and cells at
\* equal distance have equal value.
C21_StrictlyDecreasingWithDistance ==
    MonotoneCase => (StrictlyDecreasingInDistance /\ EqualAtEqualDistance)

\* C21 (amended): when in addition bumping costs at least as much as moving
\* (wall <= step), the solved value never increases with the distance to the
\* Target and cells at equal distance have equal value; with the default
\* rewards and gamma = 0.9 the decrease is strict.
C21_MonotoneWithDistance ==
    (MonotoneCase /\ rewards.wall <= rewards.step) =>
        /\ NonIncreasingInDistance
        /\ EqualAtEqualDistance
        /\ (rewards = DefaultRewards /\ gamma = DefaultGamma) => StrictlyDecreasingInDistance

\* the default configuration solved on the mounted grid: the corner opposite
\* the Target is worth less than the cell next to it
C21_Witness ==
    /\ MonotoneCase
    /\ grid = InitGrid
    /\ rewards = DefaultRewards
    /\ gamma = DefaultGamma
    /\ values[0][0] < values[GRID_SIZE - 1][GRID_SIZE - 2]
    /\ values[0][0] < values[0][1]

(***************************************************************************)
(* C22: the solver on grids that are their own transpose.                  *)
(***************************************************************************)
\* cell (r, c) has the same type as cell (c, r)
TransposeInvariant == \A p \in Cells : grid[p[1]][p[2]] = grid[p[2]][p[1]]

\* the scenario of the mounted widget: Target at (4,4), no Forbidden cells,
\* default rewards and discount
DefaultScenario ==
    /\ grid = InitGrid
    /\ rewards = DefaultRewards
    /\ gamma = DefaultGamma

\* C22: for any grid whose layout is invariant under transposition the solved
\* table satisfies V(r,c) = V(c,r) for all cells; in the default scenario
\* V(4,3) = V(3,4) and this is the highest value among the non-terminal cells.
C22_SolverSymmetry ==
    lastOp = "solve" =>
        /\ TransposeInvariant =>
              \A p \in Cells : values[p[1]][p[2]] = values[p[2]][p[1]]
        /\ DefaultScenario =>
              /\ values[GRID_SIZE - 1][GRID_SIZE - 2] = values[GRID_SIZE - 2][GRID_SIZE - 1]
              /\ \A p \in NonTerminalCells :
                    values[p[1]][p[2]] <= values[GRID_SIZE - 1][GRID_SIZE - 2]

\* a transpose-invariant grid with a Forbidden cell has been solved to a
\* table that mirrors across the diagonal and is not flat
C22_Witness ==
    /\ lastOp = "solve"
    /\ TransposeInvariant
    /\ grid # InitGrid
    /\ \E p \in Cells : grid[p[1]][p[2]] = FORBIDDEN
    /\ values[0][1] = values[1][0]
    /\ values[0][1] # values[0][2]
    /\ values[0][2] = values[2][0]

(***************************************************************************)
(* C23: termination of the solver.                                         *)
(***************************************************************************)
\* the loop state solveMDP() starts from
LoopStart == [v |-> ZeroTable, changed |-> TRUE, iters |-> 0]

\* the loop state after the first n sweeps of the last solve
AfterSweeps(n) == Loop(grid, rewards, gamma, LoopStart, n)

\* loop state st stands after n sweeps with the while condition still true
StillSweeping(st, n) == st.changed /\ st.iters = n

\* values is a table with an entry for every cell of the grid
CompleteTable ==
    /\ DOMAIN values = Idx
    /\ \A r \in Idx : DOMAIN values[r] = Idx /\ \A c \in Idx : values[r][c] \in Int

\* C23: the solver terminates for every grid, reward and discount value: it
\* performs at least one and at most 200 sweeps, stops at the first sweep in
\* which no non-terminal entry changes by more than 0.001 (or else at the
\* cap), and publishes a complete N x N table.
C23_SolverTerminates ==
    lastOp = "solve" =>
        LET run == lastSolve.run IN
        /\ run.iters >= 1
        /\ run.iters <= MAX_ITERS
        /\ run.changed => run.iters = MAX_ITERS
        /\ ~run.changed => ~Sweep(grid, rewards, gamma, values).changed
        /\ StillSweeping(AfterSweeps(run.iters - 1), run.iters - 1)
        /\ values = run.v
        /\ CompleteTable

\* a solve that ran into the cap of 200 sweeps with entries still changing
\* and published its table
C23_Witness ==
    /\ lastOp = "solve"
    /\ lastSolve.run.iters = MAX_ITERS
    /\ lastSolve.run.changed
    /\ values = lastSolve.run.v
    /\ values # ZeroTable

(***************************************************************************)
(* C24: the agent and Forbidden cells.                                     *)
(***************************************************************************)
AgentOnForbidden == CellAt(grid, agentPos[1], agentPos[2]) = FORBIDDEN

\* the events that put the agent on a cell without a step(): a cell click,
\* the reset button, and a start() that finds the agent on the Target
PlacingOps == {"click", "reset", "resetRunning", "toggleRestart"}

\* C24 (as stated): in every reachable state, edits of the agent's cell or of
\* the Start cell included, the cell at the agent's position is not Forbidden.
C24_AgentNeverOnForbidden == ~AgentOnForbidden

\* C24 (amended): a step() never moves the agent into a Forbidden cell; the
\* agent comes to stand on a Forbidden cell only through a cell click that
\* marks its cell, or a reset or restart onto a Start cell marked Forbidden.
C24_StepNeverEntersForbidden ==
    [][ /\ StepEvent =>
              (agentPos' # agentPos => CellAt(grid, agentPos'[1], agentPos'[2]) # FORBIDDEN)
        /\ (AgentOnForbidden' /\ ~AgentOnForbidden) => lastOp' \in PlacingOps ]_vars

\* a first step() next to the Forbidden cell (0, 1) has taken the agent from
\* the start corner down to (1, 0) under the greedy policy
C24_Witness ==
    /\ lastOp \in StepOps
    /\ grid[0][1] = FORBIDDEN
    /\ currentStrategy = "greedy"
    /\ startPos = <<0, 0>>
    /\ agentPos = <<1, 0>>
    /\ stepCount = 1
    /\ totalReward = rewards.step

(***************************************************************************)
(* C25: the cell at the start position.                                    *)
(***************************************************************************)
\* C25: after any sequence of grid edits the cell at the start position is
\* Empty: classified neither Forbidden nor Target.
C25_StartCellEmpty == CellAt(grid, startPos[1], startPos[2]) = EMPTY

(***************************************************************************)
(* C26: the interval timer and the running flag.                           *)
(***************************************************************************)
\* C26: in every reachable state at most one interval is live, and one is
\* live if and only if the running flag is true (it is then the one whose
\* handle timer holds): no orphan interval and no two intervals at once.
C26_TimerDiscipline ==
    /\ Cardinality(activeTimers) <= 1
    /\ (activeTimers # {}) <=> isRunning
    /\ isRunning => activeTimers = {timer}

\* in mid-episode, after an edit made while stopped, the loop has been set
\* running with a single live interval
C26_Witness ==
    /\ lastOp = "toggleStart"
    /\ stepCount > 0
    /\ timer # 0
    /\ isRunning
    /\ Cardinality(activeTimers) = 1
    /\ edits > 0

(***************************************************************************)
(* C27: the transition model of step() against the one of the solver.      *)
(* The solver's backup of (s, d) is r_imm + gamma * v[successor]: with      *)
(* gamma = 0 it is the immediate reward, and with gamma = 1 over a table    *)
(* that numbers the cells it is the immediate reward plus the number of     *)
(* the successor.                                                           *)
(***************************************************************************)
\* a table holding a different number in every cell
CellNumber(p) == p[1] * GRID_SIZE + p[2] + 1
NumberTable == [r \in Idx |-> [c \in Idx |-> CellNumber(<<r, c>>)]]

\* the immediate reward of the solver's backup of direction d in cell s
SolverReward(s, d) == QVal(grid, rewards, 0, ZeroTable, s[1], s[2], d)

\* the number of the cell whose value that backup discounts
SolverSuccessor(s, d) ==
    QVal(grid, rewards, GammaDen, NumberTable, s[1], s[2], d) - SolverReward(s, d)

\* C27: for every cell s that is neither Target nor Forbidden and every
\* action, the amount step() adds to the cumulative reward equals the
\* immediate reward of the solver's backup (step, plus target when the
\* successor is the Target; wall on a bump), and the position step() leaves
\* the agent on is the successor the solver assumes.
C27_SameRewardModel ==
    \A s \in NonTerminalCells : \A k \in 1 .. Len(dirs) :
        LET res == StepResult(grid, rewards, s, dirs[k])
        IN /\ res.reward * Scale = SolverReward(s, dirs[k])
           /\ CellNumber(res.pos) = SolverSuccessor(s, dirs[k])

\* a first manual step has taken the agent from its Start cell onto the
\* Target, paying what the solver's backup of that move assumes
C27_Witness ==
    /\ lastOp = "stepBtn"
    /\ stepCount = 1
    /\ startPos \in NonTerminalCells
    /\ AtTarget
    /\ \E k \in 1 .. Len(dirs) :
          /\ CellNumber(agentPos) = SolverSuccessor(startPos, dirs[k])
          /\ totalReward * Scale = SolverReward(startPos, dirs[k])
          /\ totalReward = rewards.step + rewards.target

(***************************************************************************)
(* C28: what an accepted cell click does to the episode.                   *)
(***************************************************************************)
\* a transition in which handleCellClick got past its running check
AcceptedClick == lastOp' = "click" /\ edits' = edits + 1 /\ ~watchQueued'

\* C28: an accepted click with the start tool moves the Start cell and the
\* agent to the clicked cell and zeroes step count and cumulative reward; one
\* with the target, forbidden or empty tool leaves agent position, start
\* position, step count and cumulative reward unchanged; after every accepted
\* click the value table is the solver's result for the edited grid.
C28_EditEffects ==
    [][ AcceptedClick =>
          /\ \E p \in ClickCells :
                /\ grid' = EditGrid(grid, currentTool, p[1], p[2])
                /\ IF currentTool = "start"
                   THEN /\ startPos' = p
                        /\ agentPos' = p
                        /\ stepCount' = 0
                        /\ totalReward' = 0
                   ELSE UNCHANGED << agentPos, startPos, stepCount, totalReward >>
          /\ ValuesFresh' ]_vars

\* after the loop had been run, the start tool was applied to the cell
\* (0, 1): the agent stands there with zeroed counters and a fresh table
C28_Witness ==
    /\ lastOp = "click"
    /\ edits = 1
    /\ startPos = <<0, 1>>
    /\ agentPos = startPos
    /\ stepCount = 0
    /\ totalReward = 0
    /\ timer # 0
    /\ ValuesFresh

(***************************************************************************)
(* C29: runs of the Optimal policy.  The initial states are those of a     *)
(* loop just started under the Optimal policy with the default rewards and *)
(* discount, on grids edited into corridors, after the start tool has put  *)
(* the agent on a cell; the one event is the timer's tick, followed to the *)
(* end of the episode.                                                     *)
(***************************************************************************)
\* ticks followed in one run
MaxRunSteps == 20

\* the mounted grid with the cells of S marked Forbidden
Walled(S) == [r \in Idx |-> [c \in Idx |->
                IF <<r, c>> \in S THEN FORBIDDEN ELSE InitGrid[r][c]]]

\* the open grid; two walls leaving a corridor that winds through every row;
\* a block in the middle; a corner cell closed in; the Target moved to the
\* centre behind a wall open to one side
RunGrids ==
    { Walled({}),
      Walled({ <<1, 0>>, <<1, 1>>, <<1, 2>>, <<1, 3>>,
               <<3, 1>>, <<3, 2>>, <<3, 3>>, <<3, 4>> }),
      Walled({ <<2, 1>>, <<2, 2>>, <<2, 3>>, <<1, 2>>, <<3, 2>> }),
      Walled({ <<0, 1>>, <<1, 1>>, <<1, 0>> }),
      EditGrid(Walled({ <<1, 2>>, <<2, 1>>, <<3, 2>>, <<1, 1>>, <<3, 1>> }), "target", 2, 2) }

RunStarts == { <<0, 0>>, <<0, GRID_SIZE - 1>>, <<GRID_SIZE - 1, 0>>, <<2, 0>>, <<0, 2>> }

InitRun ==
    \E g \in RunGrids : \E p \in RunStarts :
        /\ grid = EditGrid(g, "start", p[1], p[2])
        /\ currentTool = "start"
        /\ edits = 1
        /\ lastOp = "toggleStart"
        /\ startPos = p
        /\ agentPos = p
        /\ rewards = DefaultRewards
        /\ gamma = DefaultGamma
        /\ currentStrategy = "optimal"
        /\ isRunning = TRUE
        /\ stepCount = 0
        /\ totalReward = 0
        /\ timer = 1
        /\ activeTimers = {1}
        /\ lastSolve = [grid |-> grid, rewards |-> DefaultRewards, gamma |-> DefaultGamma,
                        run |-> solveRun(grid, DefaultRewards, DefaultGamma)]
        /\ values = lastSolve.run.v
        /\ watchQueued = FALSE
        /\ SceneInit

\* a firing of the live interval
RunTick ==
    /\ ~watchQueued
    /\ activeTimers # {}
    /\ stepCount < MaxRunSteps
    /\ \E rnd \in 1 .. Len(dirs) : step(rnd)
    /\ lastOp' = "tick"
    /\ UNCHANGED << cfgVars, currentTool, currentStrategy, watchQueued >>
    /\ UNCHANGED sceneVars

NextRun == RunTick

RunSpec == InitRun /\ [][NextRun]_vars

\* no shortest path visits a cell twice
LongestPath == (GRID_SIZE * GRID_SIZE) - 1

\* M gives the cells less than n valid moves from the Target their number of
\* moves and all others -1; Expand(M, n) does so for n + 1
Expand(M, n) ==
    [p \in Cells |->
        IF M[p] >= 0 THEN M[p]
        ELSE IF \E k \in 1 .. Len(dirs) :
                   /\ isValid(Neighbour(p, k)[1], Neighbour(p, k)[2])
                   /\ M[Neighbour(p, k)] >= 0
             THEN n
             ELSE -1]

RECURSIVE PathLengths(_, _)
PathLengths(M, n) ==
    IF n > LongestPath \/ Expand(M, n) = M THEN M ELSE PathLengths(Expand(M, n), n + 1)

\* the number of valid moves a shortest path from p to the Target takes;
\* -1 if there is no path
ShortestPath(p) ==
    PathLengths([q \in Cells |-> IF q \in TargetCells THEN 0 ELSE -1], 1)[p]

TargetReachable(p) == ShortestPath(p) >= 0

DefaultScenarioRewards == rewards = DefaultRewards /\ gamma = DefaultGamma

\* C29: with the default rewards and discount, on any grid in which the
\* Target is reachable from the cell the run started on through non-Forbidden
\* cells, the steps of a run under the Optimal policy never bump and each
\* reduce the shortest-path distance to the Target by one (the steps taken
\* plus the distance left are the distance at the start), so that the
\* episode ends on the Target after exactly the shortest-path number of steps.
C29_OptimalReachesGoal ==
    ( /\ currentStrategy = "optimal"
      /\ DefaultScenarioRewards
      /\ ValuesFresh
      /\ TargetReachable(startPos) )
    => /\ TargetReachable(agentPos)
       /\ stepCount + ShortestPath(agentPos) = ShortestPath(startPos)
       /\ totalReward = (stepCount * rewards.step)
                           + (IF AtTarget /\ stepCount > 0 THEN rewards.target ELSE 0)
       /\ isRunning <=> ~(AtTarget /\ stepCount > 0)

\* the run through the winding corridor has ended on the Target after the
\* sixteen steps of its shortest path, twice the Manhattan distance
C29_Witness ==
    /\ lastOp = "tick"
    /\ currentStrategy = "optimal"
    /\ AtTarget
    /\ ~isRunning
    /\ startPos = <<0, 0>>
    /\ stepCount = 16
    /\ stepCount = ShortestPath(startPos)
    /\ totalReward = (16 * rewards.step) + rewards.target

(***************************************************************************)
(* C30: the robot scene's render loop against its pause toggle.  The       *)
(* events are the two awaits of onMounted, the frame callback (up to its   *)
(* await of predict() and from there on), and the three control buttons.   *)
(***************************************************************************)
NextScene ==
    \/ \E ok \in BOOLEAN : LoadRobot(ok)
    \/ \E ok \in BOOLEAN : ControllerInit(ok)
    \/ \E speed \in MoveSpeeds : FrameStart(speed)
    \/ \E hasAction \in BOOLEAN : FrameResume(hasAction)
    \/ togglePlay
    \/ resetScene
    \/ randomTarget

SceneSpec == Init /\ [][NextScene]_vars

\* C30: once isPlaying is false, the render loop does not modify the
\* end-effector position until play is resumed, whatever the interleaving of
\* frame callbacks with the pause toggle, a frame suspended at predict() when
\* pause was pressed included.
C30_PauseFreezesEndEffector ==
    [][ \A hasAction \in BOOLEAN :
          (~isPlaying /\ FrameResume(hasAction)) => endEffectorPos' = endEffectorPos ]_vars

====
